---- MODULE Spec2Model ----
(***************************************************************************)
(* Model of Llpc::PatchImageOp (src/patch/llpcPatchImageOp.cpp): the LLVM  *)
(* module pass that scans the entry function of every shader stage for     *)
(* image calls, legalizes buffer size queries for GFX6..GFX8 (rule 4.3)    *)
(* and patches a constant-zero texel offset on GFX9 (rule 4.4), erasing    *)
(* the replaced calls after the scan.                                      *)
(*                                                                         *)
(* The IR is a store of instructions (inst) and one instruction sequence   *)
(* per shader stage (body).  An operand is a record [k, w, v]:             *)
(*   k = "const": a ConstantInt of width w whose value is v, four 16-bit   *)
(*                limbs, least significant first;                          *)
(*   k = "arg"  : a value that is no constant and no instruction;          *)
(*   k = "inst" : the result of instruction v[1].                          *)
(***************************************************************************)
EXTENDS Integers, Sequences, FiniteSets, TLC

VARIABLES
    gfxMajor,      \* m_pContext->GetGfxIpVersion().major
    entryPoint,    \* per stage: whether GetEntryPoint returns a function
    body,          \* per stage: the instructions of the entry function, in order
    inst,          \* the live instructions: id -> [op, callee, args]
    nextId,        \* the id the next created instruction gets
    m_imageCalls,  \* the calls scheduled for erasure
    pc,            \* "idle", "scan", "drain", "done"; "abort" after a failed assertion
    shaderStage,   \* the index of the stage loop
    cursor,        \* instructions of the current function the visitor has passed
    drained,       \* elements of m_imageCalls the erasing loop has passed
    invocation,    \* 0 before the pass runs, then 1, then 2
    pre,           \* history: the module at the entry of the current invocation
    oob            \* history: an operand index the call does not have was read

vars == <<gfxMajor, entryPoint, body, inst, nextId, m_imageCalls,
          pc, shaderStage, cursor, drained, invocation, pre, oob>>

\* Number of shader stages the driver loops over.
ShaderStageCountInternal == 2

\* Largest number of calls in the module handed to the pass.
MaxCalls == 2

Stages == 0 .. (ShaderStageCountInternal - 1)

\* Hardware majors the compilation may target.
GfxMajors == {6, 7, 8, 9, 10}

----------------------------------------------------------------------------
(* Values *)

ConstInt(w, limbs) == [k |-> "const", w |-> w, v |-> limbs]

NonConst(n) == [k |-> "arg", w |-> 32, v |-> <<n>>]

ResultOf(id) == [k |-> "inst", w |-> 0, v |-> <<id>>]

\* ConstantInt::get(Int32Ty, n), n < 2^31.
Int32(n) == ConstInt(32, <<n % 65536, n \div 65536, 0, 0>>)

\* isa<ConstantInt>(value)
IsConstantInt(val) == val.k = "const"

\* ConstantInt::getZExtValue(): the value as a uint64_t (four limbs).
getZExtValue(val) == val.v

\* Conversion of a uint64_t to uint32_t keeps the low two limbs.
TruncToU32(limbs) == <<limbs[1], limbs[2]>>

----------------------------------------------------------------------------
(* Image call metadata *)

ImageOpKindNames ==
    << "ImageOpSample", "ImageOpFetch", "ImageOpGather", "ImageOpQueryNonLod",
       "ImageOpQueryLod", "ImageOpRead", "ImageOpWrite", "ImageOpAtomicExchange",
       "ImageOpAtomicCompareExchange", "ImageOpAtomicIIncrement",
       "ImageOpAtomicIDecrement", "ImageOpAtomicIAdd", "ImageOpAtomicISub",
       "ImageOpAtomicSMin", "ImageOpAtomicUMin", "ImageOpAtomicSMax",
       "ImageOpAtomicUMax", "ImageOpAtomicAnd", "ImageOpAtomicOr",
       "ImageOpAtomicXor" >>

DimNames ==
    << "Dim1D", "Dim2D", "Dim3D", "DimCube", "DimRect", "DimBuffer",
       "DimSubpassData" >>

IndexOf(seq, x) == CHOOSE i \in 1 .. Len(seq) : seq[i] = x

NameAt(seq, n) == IF n < Len(seq) THEN seq[n + 1] ELSE "Other"

\* The packed word: OpKind in bits 0..5, Dim in bits 6..8.
EncodeMeta(opKind, dim) ==
    (IndexOf(ImageOpKindNames, opKind) - 1) + 64 * (IndexOf(DimNames, dim) - 1)

\* imageCallMeta.U32All = (uint32_t) getZExtValue(); then the bitfields.
DecodeMeta(val) ==
    LET u32 == TruncToU32(getZExtValue(val))
    IN  [OpKind |-> NameAt(ImageOpKindNames, u32[1] % 64),
         Dim    |-> NameAt(DimNames, (u32[1] \div 64) % 8)]

MetaOperand(opKind, dim) == Int32(EncodeMeta(opKind, dim))

----------------------------------------------------------------------------
(* Callee names: a name is a sequence of chunks of characters; the image   *)
(* call prefix is one chunk.                                               *)

ImageCallPrefix == <<"llpc.image">>

startswith(name, prefix) ==
    /\ Len(name) >= Len(prefix)
    /\ SubSeq(name, 1, Len(prefix)) = prefix

----------------------------------------------------------------------------
(* Instructions and the modules handed to the pass *)

Instr(op, callee, args) == [op |-> op, callee |-> callee, args |-> args]

\* A call of an image function: operand 0, the operands mid, the metadata.
ImageCall(name, opKind, dim, mid) ==
    Instr("call", ImageCallPrefix \o <<name>>,
          <<NonConst(0)>> \o mid \o <<MetaOperand(opKind, dim)>>)

Zero32 == Int32(0)
Zero64 == ConstInt(64, <<0, 0, 0, 0>>)
One32 == Int32(1)
TwoTo32 == ConstInt(64, <<0, 0, 1, 0>>)

\* The calls a function handed to the pass may hold.  Every image call
\* has at least two operands and a constant last operand, as the stage
\* that produces them guarantees (lines 113-115).
CallShapes ==
    { ImageCall(".querynonlod", "ImageOpQueryNonLod", "DimBuffer", <<>>),
      ImageCall(".querynonlod", "ImageOpQueryNonLod", "Dim2D", <<>>),
      ImageCall(".sample", "ImageOpSample", "DimBuffer",
                <<NonConst(1), NonConst(2), Zero32>>),
      ImageCall(".fetch", "ImageOpFetch", "Dim2D",
                <<NonConst(1), NonConst(2), Zero32>>),
      ImageCall(".fetch", "ImageOpFetch", "DimBuffer",
                <<NonConst(1), NonConst(2), Zero32>>),
      ImageCall(".atomicxor", "ImageOpAtomicXor", "DimBuffer",
                <<NonConst(1), NonConst(2), Zero64>>),
      ImageCall(".write", "ImageOpWrite", "DimBuffer",
                <<NonConst(1), NonConst(2), One32>>),
      ImageCall(".read", "ImageOpRead", "DimBuffer",
                <<NonConst(1), NonConst(2), TwoTo32>>),
      ImageCall(".fetch", "ImageOpFetch", "DimBuffer",
                <<NonConst(1), NonConst(2), NonConst(3)>>),
      ImageCall(".fetch", "ImageOpFetch", "DimBuffer", <<NonConst(1)>>),
      ImageCall(".fetch", "ImageOpFetch", "DimBuffer",
                <<NonConst(1), NonConst(2)>>),
      Instr("call", <<"llpc.input">>,
            <<NonConst(0), MetaOperand("ImageOpQueryNonLod", "DimBuffer")>>),
      Instr("call", <<>>,
            <<NonConst(0), NonConst(1), NonConst(2), Zero32,
              MetaOperand("ImageOpFetch", "DimBuffer")>>) }

\* Calls i of the module are numbered 1..n in program order; owner[i] is the
\* stage whose entry function holds call i.
CallsOf(owner, s) == {i \in DOMAIN owner : owner[i] = s}

RetId(n, s) == n + 1 + s

\* The entry function of stage s: its calls, then a final instruction that
\* uses the result of each of them.
BodyOf(owner, n, s) ==
    LET cs == CallsOf(owner, s)
        lo == CHOOSE i \in cs : \A j \in cs : i <= j
    IN  IF cs = {} THEN <<>>
        ELSE [i \in 1 .. (Cardinality(cs) + 1) |->
                 IF i <= Cardinality(cs) THEN lo + i - 1 ELSE RetId(n, s)]

\* Operand 0 of a call that follows another call of the same function is
\* that call's result.
InitialInst(shapes, owner, n) ==
    [id \in (1 .. n) \cup {RetId(n, s) : s \in {t \in Stages : CallsOf(owner, t) # {}}} |->
        IF id <= n
        THEN IF id > 1 /\ owner[id - 1] = owner[id]
             THEN [shapes[id] EXCEPT !.args[1] = ResultOf(id - 1)]
             ELSE shapes[id]
        ELSE LET s == id - n - 1
                 b == BodyOf(owner, n, s)
             IN  Instr("ret", <<>>, [i \in 1 .. (Len(b) - 1) |-> ResultOf(b[i])])]

Init ==
    \E n \in 0 .. MaxCalls :
      \E shapes \in [1 .. n -> CallShapes], owner \in [1 .. n -> Stages] :
        /\ \A i \in 1 .. n : \A j \in 1 .. n : i <= j => owner[i] <= owner[j]
        /\ gfxMajor \in GfxMajors
        /\ entryPoint = [s \in Stages |-> CallsOf(owner, s) # {}]
        /\ body = [s \in Stages |-> BodyOf(owner, n, s)]
        /\ inst = InitialInst(shapes, owner, n)
        /\ nextId = n + ShaderStageCountInternal + 1
        /\ m_imageCalls = {}
        /\ pc = "idle"
        /\ shaderStage = 0
        /\ cursor = 0
        /\ drained = {}
        /\ invocation = 0
        /\ pre = [inst |-> InitialInst(shapes, owner, n),
                  body |-> [s \in Stages |-> BodyOf(owner, n, s)]]
        /\ oob = FALSE

----------------------------------------------------------------------------
(* PatchImageOp::visitCallInst *)

\* (A selector that forgets the dimension.)
IsAnySizeQuery(meta) == meta.OpKind = "ImageOpQueryNonLod"

\* Rule 4.3 selector.
IsBufferSizeQuery(meta) ==
    meta.OpKind = "ImageOpQueryNonLod" /\ meta.Dim = "DimBuffer"

\* Rule 4.4 selector.
IsBufferOffsetOp(meta) ==
    /\ meta.Dim = "DimBuffer"
    /\ meta.OpKind \in
         { "ImageOpFetch", "ImageOpRead", "ImageOpWrite", "ImageOpAtomicExchange",
           "ImageOpAtomicCompareExchange", "ImageOpAtomicIIncrement",
           "ImageOpAtomicIDecrement", "ImageOpAtomicIAdd", "ImageOpAtomicISub",
           "ImageOpAtomicSMin", "ImageOpAtomicUMin", "ImageOpAtomicSMax",
           "ImageOpAtomicUMax", "ImageOpAtomicAnd", "ImageOpAtomicOr",
           "ImageOpAtomicXor" }

\* (A guard that forgets the hardware generation.)
NeedsQueryVariantAlways(major) == TRUE

\* gfxIp.major <= 8
NeedsQueryVariant(major) == major <= 8

\* (A suffix that forgets GFX8.)
GfxSuffixAlways6(major) == ".gfx6"

\* (gfxIp.major == 8) ? ".gfx8" : ".gfx6"
GfxSuffix(major) == IF major = 8 THEN ".gfx8" ELSE ".gfx6"

\* gfxIp.major == 9
HasOffsetErratum(major) == major = 9

\* const uint32_t texelOffset = getZExtValue(); texelOffset == 0
TexelOffsetIsZero(val) == TruncToU32(getZExtValue(val)) = <<0, 0>>

\* (A replacement that redirects no use.)
replaceAllUsesWithNothing(I, old, new) == I

\* Value::replaceAllUsesWith: every operand of every instruction that is the
\* result of old becomes the result of new.
replaceAllUsesWith(I, old, new) ==
    [id \in DOMAIN I |->
        [I[id] EXCEPT !.args =
            [j \in DOMAIN I[id].args |->
                IF I[id].args[j] = ResultOf(old) THEN ResultOf(new)
                ELSE I[id].args[j]]]]

\* Instructions ids placed immediately before position pos of seq.
InsertBefore(seq, pos, ids) ==
    SubSeq(seq, 1, pos - 1) \o ids \o SubSeq(seq, pos, Len(seq))

\* EmitCall(module, name, type, args, attribs, insertPos): a call of the
\* function called name with the operands args, numbered id.
EmitCall(I, id, name, args) == I @@ (id :> Instr("call", name, args))

\* The operands rule 4.3 passes on: those of the original call, in order.
QueryVariantArgs(I) == [i \in 1 .. Len(I.args) |-> I.args[i]]

\* The callee of the replacement: the name with the hardware suffix.
QueryVariantName(I, major) == I.callee \o <<GfxSuffix(major)>>

\* The instructions rule 4.4 emits, the first of them numbered id: the
\* program counter, its view as two 32-bit words, element 1, shifted right.
ZeroExpr(id) ==
    EmitCall(<< >>, id, <<"llvm.amdgcn.s.getpc">>, <<>>)
    @@ ((id + 1) :> Instr("bitcast", <<>>, <<ResultOf(id)>>))
    @@ ((id + 2) :> Instr("extractelement", <<>>, <<ResultOf(id + 1), Int32(1)>>))
    @@ ((id + 3) :> Instr("lshr", <<>>, <<ResultOf(id + 2), Int32(24)>>))

\* (An operand index off by one.)
SetOperandTwo(I, value) == [I EXCEPT !.args[3] = value]

\* What the emitted instructions compute when the shader runs.  An i64 is
\* four limbs, an i32 two, least significant first; the target is
\* little-endian, so element 0 of the <2 x i32> view is the low half.
BitCastToInt32x2(q) == << <<q[1], q[2]>>, <<q[3], q[4]>> >>

ExtractElement(vec, index) == vec[index + 1]

LShr(word, n) ==
    IF n >= 16
    THEN <<word[2] \div (2 ^ (n - 16)), 0>>
    ELSE <<(word[1] \div (2 ^ n)) + (word[2] % (2 ^ n)) * (2 ^ (16 - n)),
           word[2] \div (2 ^ n)>>

RECURSIVE Eval(_, _, _)
Eval(I, id, pcValue) ==
    LET x == I[id]
    IN  IF x.op = "lshr"
        THEN LShr(Eval(I, x.args[1].v[1], pcValue), x.args[2].v[1])
        ELSE IF x.op = "extractelement"
        THEN ExtractElement(Eval(I, x.args[1].v[1], pcValue), x.args[2].v[1])
        ELSE IF x.op = "bitcast"
        THEN BitCastToInt32x2(Eval(I, x.args[1].v[1], pcValue))
        ELSE pcValue

\* setArgOperand(3, value)
SetTexelOffset(I, value) == [I EXCEPT !.args[4] = value]

\* The visit returns without effect.
Unchanged(seq) ==
    [inst |-> inst, seq |-> seq, calls |-> m_imageCalls, nextId |-> nextId,
     abort |-> FALSE, oob |-> FALSE]

\* Words an unchecked read of something that is no ConstantInt may yield as
\* metadata: one that neither rule selects, a buffer fetch, a buffer query.
JunkWords == {0, 321, 323}

\* The words the metadata read of call c may yield beyond what the call
\* holds: JunkWords when the last operand of a recognized call is no
\* ConstantInt.  When it is a ConstantInt the word is not used, and a call
\* of no operand yields no word at all (the read ends the run), so there is
\* nothing to choose.
JunkOf(c) ==
    LET I == inst[c]
    IN  IF /\ I.op = "call" /\ startswith(I.callee, ImageCallPrefix)
           /\ I.args # <<>> /\ ~IsConstantInt(I.args[Len(I.args)])
        THEN JunkWords ELSE {0}

\* Whether an unchecked read made while visiting call c may end the run
\* (fault) or return: either, when the last operand of a recognized call is
\* read as a ConstantInt without being one (line 115) or when operand 3 may
\* be read past the operands and the callee of a call of 1 or 2 operands
\* (line 170); otherwise every read returns.
FaultOf(c) ==
    LET I == inst[c]
    IN  IF /\ I.op = "call" /\ startswith(I.callee, ImageCallPrefix)
           /\ I.args # <<>>
           /\ (Len(I.args) < 3 \/ ~IsConstantInt(I.args[Len(I.args)]))
        THEN BOOLEAN ELSE {FALSE}

\* The two rules applied to call c at position pos of seq, its metadata
\* decoded. getArgOperand(3) on a call with fewer than 4 operands reads an
\* operand the call does not have: under build "assert" the accessor checks
\* its index and the compilation aborts; under "release" it does not.  What
\* it returns for a call of three operands is the callee, no ConstantInt, so
\* the rule does not apply; for a call of 1 or 2 operands it reads past the
\* call's operands, which ends the run (fault) or returns something that is
\* no ConstantInt zero.
ApplyRules(c, meta, seq, pos, build, fault) ==
    LET I == inst[c]
        nargs == Len(I.args)
    IN  IF IsBufferSizeQuery(meta)
        THEN IF NeedsQueryVariant(gfxMajor)
             THEN [inst |-> replaceAllUsesWith(
                              EmitCall(inst, nextId,
                                       QueryVariantName(I, gfxMajor),
                                       QueryVariantArgs(I)),
                              c, nextId),
                   seq |-> InsertBefore(seq, pos, <<nextId>>),
                   calls |-> m_imageCalls \cup {c},
                   nextId |-> nextId + 1,
                   abort |-> FALSE, oob |-> FALSE]
             ELSE Unchanged(seq)
        ELSE IF IsBufferOffsetOp(meta) /\ HasOffsetErratum(gfxMajor)
        THEN IF nargs < 4
             THEN [Unchanged(seq) EXCEPT
                     !.oob = TRUE,
                     !.abort = (build = "assert" \/ (nargs < 3 /\ fault))]
             ELSE IF IsConstantInt(I.args[4]) /\ TexelOffsetIsZero(I.args[4])
             THEN [inst |-> [(inst @@ ZeroExpr(nextId))
                               EXCEPT ![c] = SetTexelOffset(I, ResultOf(nextId + 3))],
                   seq |-> InsertBefore(seq, pos,
                             <<nextId, nextId + 1, nextId + 2, nextId + 3>>),
                   calls |-> m_imageCalls,
                   nextId |-> nextId + 4,
                   abort |-> FALSE, oob |-> FALSE]
             ELSE Unchanged(seq)
        ELSE Unchanged(seq)

\* What visiting call c at position pos of seq does.  The assertions of lines
\* 113 and 115 (at least 2 operands, the last one a ConstantInt) exist under
\* build "assert" only, where a call that fails them aborts the compilation.
\* Under "release" the last operand is taken as the metadata whatever the
\* call holds: operand 0 of a call of one operand; for a last operand that
\* is no ConstantInt the read is unchecked and ends the run (fault) or
\* yields the word junk.  For a call of no operand metaOperandIndex wraps to
\* 4294967295 (line 114, unsigned) and the read of that operand (line 115)
\* ends the run, the module untouched.
visitCallInst(c, seq, pos, build, junk, fault) ==
    LET I == inst[c]
        nargs == Len(I.args)
        readable == nargs >= 1 /\ IsConstantInt(I.args[nargs])
        meta == IF readable THEN DecodeMeta(I.args[nargs])
                ELSE DecodeMeta(Int32(junk))
    IN  IF I.callee = <<>> THEN Unchanged(seq)
        ELSE IF ~startswith(I.callee, ImageCallPrefix) THEN Unchanged(seq)
        ELSE IF build = "assert" /\ (nargs < 2 \/ ~IsConstantInt(I.args[nargs]))
             THEN [Unchanged(seq) EXCEPT !.abort = TRUE]
        ELSE IF nargs = 0
             THEN [Unchanged(seq) EXCEPT !.abort = TRUE, !.oob = TRUE]
        ELSE IF ~readable /\ fault
             THEN [Unchanged(seq) EXCEPT !.abort = TRUE]
        ELSE ApplyRules(c, meta, seq, pos, build, fault)

----------------------------------------------------------------------------
(* PatchImageOp::runOnModule *)

\* The module at the entry of runOnModule.
Snapshot == [inst |-> inst, body |-> body]

\* (A loop that stops after the first stage.)
StageLoopDoneEarly(stage) == stage >= 1

\* shaderStage < ShaderStageCountInternal fails: the stage loop is over.
StageLoopDone(stage) == stage >= ShaderStageCountInternal

\* runOnModule is entered for the first time.
Start ==
    /\ pc = "idle"
    /\ pc' = "scan"
    /\ invocation' = 1
    /\ shaderStage' = 0
    /\ cursor' = 0
    /\ pre' = Snapshot
    /\ UNCHANGED <<gfxMajor, entryPoint, body, inst, nextId, m_imageCalls, drained, oob>>

\* The stage has no entry point: the loop moves on.
SkipStage ==
    /\ pc = "scan"
    /\ ~StageLoopDone(shaderStage)
    /\ ~entryPoint[shaderStage]
    /\ shaderStage' = shaderStage + 1
    /\ UNCHANGED <<gfxMajor, entryPoint, body, inst, nextId, m_imageCalls,
                   pc, cursor, drained, invocation, pre, oob>>

\* visit(*m_pEntryPoint) reaches the next instruction of the entry function:
\* the iterator has moved past it before it is visited, so what the visit
\* inserts before it is not visited.
VisitInst ==
    /\ pc = "scan"
    /\ ~StageLoopDone(shaderStage)
    /\ entryPoint[shaderStage]
    /\ \E build \in {"assert", "release"},
          junk \in JunkOf(body[shaderStage][cursor + 1]),
          fault \in FaultOf(body[shaderStage][cursor + 1]) :
         LET seq == body[shaderStage]
             pos == cursor + 1
             c == seq[pos]
             r == IF inst[c].op = "call"
                  THEN visitCallInst(c, seq, pos, build, junk, fault)
                  ELSE Unchanged(seq)
             at == pos + (Len(r.seq) - Len(seq))
         IN  /\ inst' = r.inst
             /\ body' = [body EXCEPT ![shaderStage] = r.seq]
             /\ m_imageCalls' = r.calls
             /\ nextId' = r.nextId
             /\ oob' = (oob \/ r.oob)
             /\ IF r.abort
                THEN pc' = "abort" /\ UNCHANGED <<shaderStage, cursor>>
                ELSE /\ pc' = pc
                     /\ IF at = Len(r.seq)
                        THEN shaderStage' = shaderStage + 1 /\ cursor' = 0
                        ELSE shaderStage' = shaderStage /\ cursor' = at
    /\ UNCHANGED <<gfxMajor, entryPoint, drained, invocation, pre>>

\* The stage loop is over: the loop over m_imageCalls begins.
BeginDrain ==
    /\ pc = "scan"
    /\ StageLoopDone(shaderStage)
    /\ pc' = "drain"
    /\ drained' = {}
    /\ UNCHANGED <<gfxMajor, entryPoint, body, inst, nextId, m_imageCalls,
                   shaderStage, cursor, invocation, pre, oob>>

\* (An erasure that destroys nothing.)
eraseFromParentKeeps(I, c) == I

\* Instruction::eraseFromParent (after dropAllReferences): the instruction
\* leaves its function and is destroyed.
eraseFromParent(I, c) == [id \in (DOMAIN I) \ {c} |-> I[id]]

RemoveFrom(seq, c) == SelectSeq(seq, LAMBDA x : x # c)

\* One iteration of the loop over m_imageCalls, in the set's order.
DrainOne ==
    /\ pc = "drain"
    /\ \E c \in m_imageCalls \ drained :
         /\ inst' = eraseFromParent(inst, c)
         /\ body' = [s \in Stages |-> RemoveFrom(body[s], c)]
         /\ drained' = drained \cup {c}
    /\ UNCHANGED <<gfxMajor, entryPoint, nextId, m_imageCalls, pc, shaderStage,
                   cursor, invocation, pre, oob>>

\* m_imageCalls.clear(); return true.
Finish ==
    /\ pc = "drain"
    /\ drained = m_imageCalls
    /\ m_imageCalls' = {}
    /\ drained' = {}
    /\ pc' = "done"
    /\ UNCHANGED <<gfxMajor, entryPoint, body, inst, nextId, shaderStage, cursor,
                   invocation, pre, oob>>

\* The pass is run again, over the module it produced.
Rerun ==
    /\ pc = "done"
    /\ invocation = 1
    /\ pc' = "scan"
    /\ invocation' = 2
    /\ shaderStage' = 0
    /\ cursor' = 0
    /\ pre' = Snapshot
    /\ UNCHANGED <<gfxMajor, entryPoint, body, inst, nextId, m_imageCalls, drained, oob>>

Next ==
    \/ Start
    \/ SkipStage
    \/ VisitInst
    \/ BeginDrain
    \/ DrainOne
    \/ Finish

Spec == Init /\ [][Next]_vars

NextTwice == Next \/ Rerun

SpecTwice == Init /\ [][NextTwice]_vars

----------------------------------------------------------------------------
(* Vocabulary of the properties *)

\* The scan is about to visit an instruction of the current entry function.
Scanning ==
    /\ pc = "scan"
    /\ shaderStage < ShaderStageCountInternal
    /\ entryPoint[shaderStage]

\* The instruction the next step visits, and where it stands.
CurPos == cursor + 1
Cur == body[shaderStage][CurPos]

\* A call the pass recognizes as an image call.
Recognized(I) ==
    /\ I.op = "call"
    /\ I.callee # <<>>
    /\ startswith(I.callee, ImageCallPrefix)

MetaOf(I) == DecodeMeta(I.args[Len(I.args)])

\* The places (instruction, operand index) where the result of c is used.
UsesOf(I, c) ==
    UNION {{<<u, j>> : j \in {k \in DOMAIN I[u].args : I[u].args[k] = ResultOf(c)}} :
             u \in DOMAIN I}

\* The operation kinds rule 4.4 lists: fetch, read, write, thirteen atomics.
OffsetOpKinds ==
    {ImageOpKindNames[i] : i \in {2, 6, 7} \cup (8 .. 20)}

\* The (OpKind, Dim) selectors of the two rules, as the specification words
\* them.
SelectedByRule43(meta) ==
    meta.OpKind = "ImageOpQueryNonLod" /\ meta.Dim = "DimBuffer"

SelectedByRule44(meta) ==
    meta.Dim = "DimBuffer" /\ meta.OpKind \in OffsetOpKinds

ModuleUntouched ==
    /\ inst' = inst
    /\ body' = body
    /\ m_imageCalls' = m_imageCalls

\* The current step visits a buffer size query.
AtBufferSizeQuery ==
    /\ Scanning
    /\ Recognized(inst[Cur])
    /\ SelectedByRule43(MetaOf(inst[Cur]))

\* C1: a recognized call whose metadata says query-non-lod on a buffer gets,
\* immediately before it, a replacement call named after it plus ".gfx6"
\* (major 6 or 7) or ".gfx8" (major 8) that carries its operands in
\* order; for a major of 9 or above nothing is touched and nothing created.
C1_VariantSelection ==
    [][AtBufferSizeQuery =>
        LET c == Cur
            seq == body[shaderStage]
            seqN == body'[shaderStage]
            n == seqN[CurPos]
        IN  IF gfxMajor >= 9 THEN ModuleUntouched /\ nextId' = nextId
            ELSE /\ seqN = InsertBefore(seq, CurPos, <<n>>)
                 /\ seqN[CurPos + 1] = c
                 /\ n \notin DOMAIN inst
                 /\ DOMAIN inst' = DOMAIN inst \cup {n}
                 /\ inst'[n].op = "call"
                 /\ inst'[n].callee =
                      inst[c].callee \o
                        (IF gfxMajor \in {6, 7} THEN <<".gfx6">> ELSE <<".gfx8">>)
                 /\ inst'[n].args = inst[c].args
                 /\ inst'[c] = inst[c]
    ]_vars

\* A replacement named ".gfx8" stands immediately before its original, which
\* awaits erasure; another one is named ".gfx6".
C1_Witness ==
    /\ gfxMajor = 8
    /\ \E s \in Stages : \E i \in 1 .. (Len(body[s]) - 1) :
         /\ body[s][i + 1] \in m_imageCalls
         /\ inst[body[s][i]].callee = inst[body[s][i + 1]].callee \o <<".gfx8">>
         /\ Len(inst[body[s][i]].args) >= 2

\* The visit of a buffer size query on a major of 8 or below moves every use
\* of its result to the replacement, and changes no other operand.
RedirectsUses ==
    (AtBufferSizeQuery /\ gfxMajor <= 8) =>
        LET c == Cur
            n == body'[shaderStage][CurPos]
        IN  /\ UsesOf(inst', c) = {}
            /\ UsesOf(inst', n) = UsesOf(inst, c)
            /\ \A u \in DOMAIN inst : \A j \in 1 .. Len(inst[u].args) :
                 inst'[u].args[j] =
                    IF inst[u].args[j] = ResultOf(c) THEN ResultOf(n)
                    ELSE inst[u].args[j]
            /\ c \in m_imageCalls'

\* No instruction uses the result of a call that awaits erasure.
NoUseOfScheduled ==
    \A c \in m_imageCalls \cap DOMAIN inst : UsesOf(inst, c) = {}

\* The buffer size queries the scan of this invocation met in function s.
ReplacedAt(s) ==
    {i \in 1 .. Len(pre.body[s]) :
        /\ Recognized(pre.inst[pre.body[s][i]])
        /\ SelectedByRule43(MetaOf(pre.inst[pre.body[s][i]]))
        /\ gfxMajor <= 8}

\* When the pass has returned, each of them is gone from every function and
\* one replacement call stands where it stood.
OriginalsGone ==
    pc = "done" =>
      \A s \in Stages : \A i \in ReplacedAt(s) :
        LET c == pre.body[s][i]
        IN  /\ c \notin DOMAIN inst
            /\ \A t \in Stages : \A k \in 1 .. Len(body[t]) : body[t][k] # c
            /\ Len(body[s]) = Len(pre.body[s])
            /\ body[s][i] \notin DOMAIN pre.inst
            /\ inst[body[s][i]].op = "call"
            /\ inst[body[s][i]].callee = pre.inst[c].callee \o <<GfxSuffix(gfxMajor)>>
            /\ Cardinality({k \in 1 .. Len(body[s]) :
                              body[s][k] \notin DOMAIN pre.inst}) =
               Cardinality(ReplacedAt(s))

\* C2: when rule 4.3 replaces a call, every use of the original's result
\* refers to the replacement's result from then on, and once the pass has
\* returned the original is in no scanned function: one replacement call
\* stands in its place.
C2_RedirectAndRemoval ==
    /\ [][RedirectsUses]_vars
    /\ [](NoUseOfScheduled /\ OriginalsGone)

\* The pass has returned after replacing a call whose result another call
\* and the final instruction of the function used.
C2_Witness ==
    /\ pc = "done"
    /\ \E s \in Stages : \E i \in ReplacedAt(s) :
         /\ Cardinality(UsesOf(pre.inst, pre.body[s][i])) >= 2
         /\ Cardinality(UsesOf(inst, body[s][i])) >= 2

\* The current step visits a call that rule 4.4 selects and that has an
\* operand at index 3.
AtBufferOffsetOp ==
    /\ Scanning
    /\ Recognized(inst[Cur])
    /\ SelectedByRule44(MetaOf(inst[Cur]))
    /\ Len(inst[Cur].args) >= 4

\* The value of a constant is zero: every limb is.
IsZeroConstant(val) == IsConstantInt(val) /\ val.v = <<0, 0, 0, 0>>

\* The visit of such a call on major 9 with the constant 0 at index 3 puts an
\* instruction result there and changes nothing else of any instruction.
PatchesOffsetInPlace ==
    (AtBufferOffsetOp /\ gfxMajor = 9 /\ IsZeroConstant(inst[Cur].args[4])) =>
        LET c == Cur
            new == inst'[c].args[4]
        IN  /\ body'[shaderStage][CurPos + (Len(body'[shaderStage]) - Len(body[shaderStage]))] = c
            /\ inst'[c].op = "call"
            /\ inst'[c].callee = inst[c].callee
            /\ Len(inst'[c].args) = Len(inst[c].args)
            /\ \A j \in 1 .. Len(inst[c].args) : j # 4 => inst'[c].args[j] = inst[c].args[j]
            /\ ~IsConstantInt(new)
            /\ new.k = "inst"
            /\ new.v[1] \notin DOMAIN inst
            /\ inst'[new.v[1]].op = "lshr"
            /\ \A u \in (DOMAIN inst) \ {c} : inst'[u] = inst[u]
            /\ UsesOf(inst', c) = UsesOf(inst, c)
            /\ m_imageCalls' = m_imageCalls
            /\ \A s \in Stages \ {shaderStage} : body'[s] = body[s]

\* No call that rule 4.4 selects ever awaits erasure.
OffsetOpsNeverScheduled ==
    \A c \in m_imageCalls \cap DOMAIN inst : ~SelectedByRule44(MetaOf(inst[c]))

\* C3: on major 9, a recognized buffer call of a listed kind (fetch, read,
\* write, the thirteen atomics) whose operand 3 is the constant 0 gets a
\* non-constant operand 3 in place; its identity, callee, other operands
\* and the uses of its result stay, and it is never scheduled for erasure.
C3_OffsetPatchedInPlace ==
    /\ [][PatchesOffsetInPlace]_vars
    /\ [](/\ OffsetOpsNeverScheduled
          /\ Cardinality(OffsetOpKinds) = 16
          /\ \A k \in OffsetOpKinds : IsBufferOffsetOp([OpKind |-> k, Dim |-> "DimBuffer"]))

\* A buffer atomic whose operand 3 was a 64-bit constant 0 now has the result
\* of a shift there, and its metadata operand is the one it had.
C3_Witness ==
    /\ gfxMajor = 9
    /\ \E c \in DOMAIN inst \cap DOMAIN pre.inst :
         /\ Recognized(inst[c])
         /\ MetaOf(inst[c]).OpKind = "ImageOpAtomicXor"
         /\ pre.inst[c].args[4] = Zero64
         /\ inst[c].args[4].k = "inst"
         /\ inst[inst[c].args[4].v[1]].op = "lshr"
         /\ inst[c].args[5] = pre.inst[c].args[5]

\* C4: for a call rule 4.4 selects, nothing of the call or of the function
\* changes when the major is not 9, or operand 3 is no constant integer, or
\* operand 3 is a constant of any width whose value is not zero.
C4_NoMutationOtherwise ==
    [][(/\ AtBufferOffsetOp
        /\ \/ gfxMajor # 9
           \/ ~IsConstantInt(inst[Cur].args[4])
           \/ (IsConstantInt(inst[Cur].args[4]) /\ ~IsZeroConstant(inst[Cur].args[4])))
       => ModuleUntouched]_vars

\* A call neither rule selects: its callee is unknown or lacks the image
\* prefix, or its metadata matches neither selector.
PassesThrough(I) ==
    /\ I.op = "call"
    /\ \/ ~Recognized(I)
       \/ (~SelectedByRule43(MetaOf(I)) /\ ~SelectedByRule44(MetaOf(I)))

\* The visit of such a call changes nothing.
VisitLeavesPassThrough ==
    (Scanning /\ PassesThrough(inst[Cur])) => (ModuleUntouched /\ nextId' = nextId)

\* When the pass has returned such a call is what it was at the entry.
PassThroughIdentical ==
    pc = "done" =>
      \A c \in DOMAIN pre.inst :
        PassesThrough(pre.inst[c]) =>
          /\ c \in DOMAIN inst
          /\ inst[c] = pre.inst[c]
          /\ UsesOf(inst, c) = UsesOf(pre.inst, c)

\* C5 as stated: a call that neither rule selects, or that the pass does not
\* recognize, is identical after the pass: same operands, same callee, same
\* uses of its result, not erased, nothing inserted by its visit.
C5_IdenticalAfterPass ==
    /\ [][VisitLeavesPassThrough]_vars
    /\ [](PassThroughIdentical)

\* The instruction that stands, when the pass has returned, for instruction x
\* of the module at entry: x itself, or the replacement in its place.
StandsFor(x) ==
    IF x \in DOMAIN inst THEN x
    ELSE LET s == CHOOSE t \in Stages : \E i \in ReplacedAt(t) : pre.body[t][i] = x
             i == CHOOSE k \in ReplacedAt(s) : pre.body[s][k] = x
         IN  body[s][i]

Redirected(val) == IF val.k = "inst" THEN ResultOf(StandsFor(val.v[1])) ELSE val

PassThroughUpToRedirect ==
    pc = "done" =>
      \A c \in DOMAIN pre.inst :
        PassesThrough(pre.inst[c]) =>
          /\ c \in DOMAIN inst
          /\ inst[c].op = "call"
          /\ inst[c].callee = pre.inst[c].callee
          /\ inst[c].args =
               [j \in 1 .. Len(pre.inst[c].args) |-> Redirected(pre.inst[c].args[j])]
          /\ UsesOf(inst, c) =
               {<<StandsFor(u[1]), u[2]>> : u \in UsesOf(pre.inst, c)}
          /\ \A s \in Stages : \A i \in 1 .. Len(pre.body[s]) :
               pre.body[s][i] = c => \E k \in 1 .. Len(body[s]) : body[s][k] = c

\* C5, amended: the visit of such a call changes nothing, the call is never
\* erased, and after the pass it has its callee and its operands and uses,
\* except that where an operand or a user was a call rule 4.3 replaced, the
\* replacement call now stands.
C5_IdenticalUpToRedirect ==
    /\ [][VisitLeavesPassThrough]_vars
    /\ [](PassThroughUpToRedirect)

\* The pass has returned; a 2D fetch it left alone now takes the result of
\* the replacement of the buffer size query it followed.
C5_Witness ==
    /\ pc = "done"
    /\ \E c \in DOMAIN pre.inst \cap DOMAIN inst :
         /\ PassesThrough(pre.inst[c])
         /\ Recognized(inst[c])
         /\ MetaOf(inst[c]).Dim = "Dim2D"
         /\ inst[c].args[1] # pre.inst[c].args[1]
         /\ inst[c].args[1].k = "inst"
         /\ pre.inst[c].args[1].v[1] \notin DOMAIN inst

\* C6 as stated: a second run of the pass over the module the first run
\* produced replaces, creates and erases no call and changes no operand.
C6_SecondRunNoOp ==
    invocation = 2 => (Snapshot = pre /\ m_imageCalls = {})

\* C6, amended: the second run is a no-op when the major is 9 or above or the
\* scanned functions hold no buffer size query (rule 4.4 finds operand 3 no
\* longer constant); on a major of 8 or below rule 4.3 applies again to each
\* replacement call, which keeps the prefix and the metadata: the call
\* named X.gfx6 (X.gfx8) is replaced by one named X.gfx6.gfx6 (X.gfx8.gfx8).
C6_SecondRunNoOpFromGfx9 ==
    invocation = 2 =>
      IF gfxMajor >= 9 \/ \A s \in Stages : ReplacedAt(s) = {}
      THEN Snapshot = pre /\ m_imageCalls = {}
      ELSE /\ pc = "done" => Snapshot # pre
           /\ OriginalsGone
           /\ \A s \in Stages : \A i \in ReplacedAt(s) :
                LET name == pre.inst[pre.body[s][i]].callee
                IN  name[Len(name)] = GfxSuffix(gfxMajor)

\* The second run has returned on major 9 over a module that holds a call the
\* first run patched and a buffer size query.
C6_Witness ==
    /\ invocation = 2
    /\ pc = "done"
    /\ gfxMajor = 9
    /\ \E c \in DOMAIN inst : inst[c].op = "lshr"
    /\ \E c \in DOMAIN inst :
         Recognized(inst[c]) /\ SelectedByRule43(MetaOf(inst[c]))

\* Instructions the step destroys.
Destroyed == (DOMAIN inst) \ (DOMAIN inst')

\* What a step of the pass may do to the pending set and to instructions.
ErasureOrdered ==
    /\ Destroyed # {} => (pc = "drain" /\ pc' = "drain")
    /\ (pc' = "drain" /\ pc # "drain") =>
          /\ pc = "scan"
          /\ shaderStage = ShaderStageCountInternal
          /\ m_imageCalls' = m_imageCalls
    /\ (pc = "scan" /\ pc' = "scan") => shaderStage' >= shaderStage
    /\ \A c \in Destroyed :
          /\ c \in m_imageCalls
          /\ c \notin drained
          /\ UsesOf(inst, c) = {}
          /\ Destroyed = {c}
    /\ drained' \ drained \subseteq Destroyed
    /\ (pc' = "done" /\ pc # "done") =>
          /\ pc = "drain"
          /\ m_imageCalls \cap DOMAIN inst = {}
    /\ pc = "done" => pc' # "drain"

\* C7: no call is destroyed during the scan; the loop over the pending set
\* runs once per invocation, after the stage loop is over; a call is destroyed
\* when no instruction uses its result, and once; the pending set is empty
\* when the pass returns.
C7_DeferredErasure ==
    /\ [][ErasureOrdered]_vars
    /\ [](pc = "done" => m_imageCalls = {})
    /\ [](pc = "scan" => drained = {} /\ m_imageCalls \subseteq DOMAIN inst)

\* Two scheduled calls of two stages: one is destroyed, the other not yet.
C7_Witness ==
    /\ pc = "drain"
    /\ Cardinality(m_imageCalls) >= 2
    /\ Cardinality(drained) = 1
    /\ \E c \in m_imageCalls : c \in DOMAIN inst
    /\ \E s \in Stages : \E t \in Stages :
         /\ s # t
         /\ Len(body[s]) >= 2
         /\ Len(body[t]) >= 2

\* Calls present now and not at the entry; instructions gone since.
CreatedCalls == {n \in (DOMAIN inst) \ (DOMAIN pre.inst) : inst[n].op = "call"}
ErasedCalls == (DOMAIN pre.inst) \ (DOMAIN inst)

IsGetPc(I) == I.op = "call" /\ I.callee = <<"llvm.amdgcn.s.getpc">>

\* The calls whose operand 3 the run replaced by the result of a shift.
PatchedCalls ==
    {c \in (DOMAIN inst) \cap (DOMAIN pre.inst) :
        /\ inst[c].op = "call"
        /\ Len(inst[c].args) >= 4
        /\ inst[c].args[4] # pre.inst[c].args[4]
        /\ inst[c].args[4].k = "inst"
        /\ inst[c].args[4].v[1] \notin DOMAIN pre.inst}

\* C8 as stated: every call the run creates is the rule 4.3 replacement of
\* one call it erases, so it creates as many calls as it erases.
C8_CreatedEqualsErased ==
    pc = "done" =>
      /\ Cardinality(CreatedCalls) = Cardinality(ErasedCalls)
      /\ \A n \in CreatedCalls :
           \E c \in ErasedCalls : \E s \in Stages : \E i \in ReplacedAt(s) :
             pre.body[s][i] = c /\ body[s][i] = n

\* C8, amended: a call the run creates is either the rule 4.3 replacement of
\* one call it erases, or the call of llvm.amdgcn.s.getpc that rule 4.4
\* emits, one for each call it patches; the replacements are as many as the
\* erased calls.
C8_CreatedAreReplacementsOrGetPc ==
    pc = "done" =>
      /\ \A n \in CreatedCalls :
           \/ IsGetPc(inst[n])
           \/ \E c \in ErasedCalls : \E s \in Stages : \E i \in ReplacedAt(s) :
                pre.body[s][i] = c /\ body[s][i] = n
      /\ Cardinality({n \in CreatedCalls : ~IsGetPc(inst[n])}) = Cardinality(ErasedCalls)
      /\ Cardinality({n \in CreatedCalls : IsGetPc(inst[n])}) = Cardinality(PatchedCalls)
      /\ \A c \in ErasedCalls : pre.inst[c].op = "call"
      /\ \A c \in PatchedCalls :
           LET shift == inst[inst[c].args[4].v[1]]
               element == inst[shift.args[1].v[1]]
               cast == inst[element.args[1].v[1]]
           IN  /\ cast.args[1].v[1] \in CreatedCalls
               /\ IsGetPc(inst[cast.args[1].v[1]])

\* The pass has returned after patching two calls; nothing was erased.
C8_Witness ==
    /\ pc = "done"
    /\ Cardinality(PatchedCalls) = 2
    /\ Cardinality(CreatedCalls) = 2
    /\ ErasedCalls = {}

\* Program counter values: limbs at and around the edges of each half.
PcSamples ==
    {<<a, b, c, d>> : a \in {0, 65535}, b \in {0, 65535}, c \in {0, 1, 65535},
                      d \in {0, 1, 255, 256, 32768, 65535}}

\* The calls whose operand 3 rule 4.4 made the result of an instruction.
SynthesizedOffsets ==
    {c \in DOMAIN inst \cap DOMAIN pre.inst :
        /\ Recognized(inst[c])
        /\ Len(inst[c].args) >= 4
        /\ IsConstantInt(pre.inst[c].args[4])
        /\ inst[c].args[4].k = "inst"
        /\ inst[inst[c].args[4].v[1]].op = "lshr"}

\* The 32-bit value v as getZExtValue gives it.
ZExt32(v) == <<v[1], v[2], 0, 0>>

\* C9: the value rule 4.4 puts at operand 3 is the high 32-bit half of the
\* program counter shifted right by 24, that is bits 56..63 of the program
\* counter; for every program counter whose top 8 bits are 0 it is 0, the
\* value of the constant that stood at operand 3 at the entry of the pass.
C9_SynthesizedEqualsReplaced ==
    \A c \in SynthesizedOffsets : \A p \in PcSamples :
        LET value == Eval(inst, inst[c].args[4].v[1], p)
        IN  /\ value = <<p[4] \div 256, 0>>
            /\ p[4] < 256 =>
                 /\ value = <<0, 0>>
                 /\ ZExt32(value) = getZExtValue(pre.inst[c].args[4])

\* C10: a recognized call with at least 2 operands and a constant last
\* operand is processed, on every major and for every decoded metadata,
\* without a contract violation and without reading an operand index the
\* call does not have.
C10_OnlyExistingOperandsRead ==
    [][(/\ Scanning
        /\ Recognized(inst[Cur])
        /\ Len(inst[Cur].args) >= 2
        /\ IsConstantInt(inst[Cur].args[Len(inst[Cur].args)]))
       => (pc' # "abort" /\ oob' = oob)]_vars

====
